---- MODULE Spec2Model ----
(***************************************************************************)
(* The relational schema of src/models.py (users, characters, planets,     *)
(* favorites, posts, comments) as a state machine: the six tables are the  *)
(* state, and every insert, update and delete is one atomic write that the *)
(* storage engine accepts or rejects according to the declared unique,     *)
(* check and foreign-key constraints and the declared cascades.            *)
(***************************************************************************)
EXTENDS Integers, FiniteSets, Sequences, TLC

VARIABLES users, characters, planets, favorites, posts, comments,
          clock, pending, last

tables == <<users, characters, planets, favorites, posts, comments>>
vars == <<users, characters, planets, favorites, posts, comments,
          clock, pending, last>>

\* ------------------------------------------------------------------ bounds
\* Primary keys range over 0..MaxId; the wall clock over 0..MaxClock.
MaxId == 1
MaxClock == 1

Ids == 0..MaxId
Emails == {"a@x.com", "b@x.com"}
Passwords == {"pw1", "pw2"}
Names == {"Luke", "Leia"}
PlanetNames == {"Tatooine", "Hoth"}
Titles == {"t1"}
Bodies == {"b1", "b2"}
CommentBodies == {"c1"}
Sessions == {"s1", "s2"}

\* An Optional[...] column: None is SQL NULL, Some(v) a stored value.
None == <<>>
Some(v) == <<v>>
OptIds == {None} \cup {Some(i) : i \in Ids}
Usernames == {None, Some("luke")}

\* ------------------------------------------------------------- constraints
\* An email column that is indexed but not unique.
UqUsersEmailAbsent(U, email) == TRUE

\* users.email: unique=True
UqUsersEmail(U, email) == \A u \in U : u.email # email

\* users.username: unique=True on a nullable column (NULLs never collide)
UqUsersUsername(U, username) ==
    username = None \/ \A u \in U : u.username # username

\* characters.name / planets.name: unique=True
UqCharactersName(C, name) == \A c \in C : c.name # name

UqPlanetsName(P, name) == \A p \in P : p.name # name

\* A check that only rules out a row with neither reference.
CkAtLeastOneRef(character_id, planet_id) ==
    character_id # None \/ planet_id # None

\* CheckConstraint ck_favorites_exactly_one_ref
CkExactlyOneRef(character_id, planet_id) ==
    \/ (character_id # None /\ planet_id = None)
    \/ (character_id = None /\ planet_id # None)

\* A favorites table without the (user_id, character_id) unique index.
UqUserCharacterFavAbsent(F, user_id, character_id) == TRUE

\* UniqueConstraint uq_user_character_fav: a row with a NULL character_id
\* collides with no other row.
UqUserCharacterFav(F, user_id, character_id) ==
    character_id = None
    \/ \A f \in F : ~(f.user_id = user_id /\ f.character_id = character_id)

\* A unique index in which two NULL planet_id values collide.
UqUserPlanetFavNullsCollide(F, user_id, planet_id) ==
    \A f \in F : ~(f.user_id = user_id /\ f.planet_id = planet_id)

\* UniqueConstraint uq_user_planet_fav
UqUserPlanetFav(F, user_id, planet_id) ==
    planet_id = None
    \/ \A f \in F : ~(f.user_id = user_id /\ f.planet_id = planet_id)

\* ForeignKey("users.id"), nullable=False
FkUser(U, user_id) == \E u \in U : u.id = user_id

\* ForeignKey("characters.id") on a nullable column
FkCharacter(C, character_id) ==
    character_id = None \/ \E c \in C : c.id = character_id[1]

\* ForeignKey("planets.id") on a nullable column
FkPlanet(P, planet_id) ==
    planet_id = None \/ \E p \in P : p.id = planet_id[1]

\* A post_id column that is a plain integer, not a foreign key.
FkPostAbsent(P, post_id) == TRUE

\* ForeignKey("posts.id"), nullable=False
FkPost(P, post_id) == \E p \in P : p.id = post_id

\* ---------------------------------------------------------------- cascades
\* User.favorites / Favorite.user_id ondelete=CASCADE
UserFavorites(F, user_id) == {f \in F : f.user_id = user_id}

\* User.posts / Post.author_id ondelete=CASCADE
UserPosts(P, user_id) == {p \in P : p.author_id = user_id}

\* User.comments / Comment.author_id ondelete=CASCADE
UserComments(C, user_id) == {c \in C : c.author_id = user_id}

\* A post whose deletion leaves its comments behind.
PostCommentsKept(C, post_id) == {}

\* Post.comments / Comment.post_id ondelete=CASCADE
PostComments(C, post_id) == {c \in C : c.post_id = post_id}

\* A cascade that takes every favorite of a character with it.
CharacterFavoritesAll(F, character_id) == {f \in F : f.character_id # None}

\* Character.favorites / Favorite.character_id ondelete=CASCADE
CharacterFavorites(F, character_id) ==
    {f \in F : f.character_id = Some(character_id)}

\* Planet.favorites / Favorite.planet_id ondelete=CASCADE
PlanetFavorites(F, planet_id) == {f \in F : f.planet_id = Some(planet_id)}

\* ------------------------------------------------------------------ helpers
Row(T, id) == CHOOSE r \in T : r.id = id
HasId(T, id) == \E r \in T : r.id = id
FreeIds(T) == {i \in Ids : ~HasId(T, i)}

\* datetime.utcnow, the column default of created_at / updated_at
UtcNow == clock

\* The outcome of the last write, as reported to the caller.
Outcome(op, result) == [op |-> op, result |-> result]

\* A rejected write: the transaction is rolled back.
Rejected(op, result) ==
    /\ UNCHANGED <<tables, clock>>
    /\ last' = Outcome(op, result)

\* A session holding no new object.
NoPending == [users |-> {}, favorites |-> {}]

Init ==
    /\ users = {}
    /\ characters = {}
    /\ planets = {}
    /\ favorites = {}
    /\ posts = {}
    /\ comments = {}
    /\ clock = 0
    /\ pending = [s \in Sessions |-> NoPending]
    /\ last = Outcome("none", "ok")

\* ------------------------------------------------------------------- users
NewUser(id, email, password, username) ==
    [id |-> id, email |-> email, password |-> password, is_active |-> TRUE,
     created_at |-> UtcNow, username |-> username]

InsertUserOp(id, email, password, username) ==
    IF ~(UqUsersEmail(users, email) /\ UqUsersUsername(users, username))
    THEN Rejected("InsertUser", "UniqueViolation")
    ELSE /\ users' = users \cup {NewUser(id, email, password, username)}
         /\ UNCHANGED <<characters, planets, favorites, posts, comments, clock>>
         /\ last' = Outcome("InsertUser", "ok")

DeleteUserOp(id) ==
    IF ~HasId(users, id)
    THEN Rejected("DeleteUser", "NotFound")
    ELSE LET gone == UserPosts(posts, id) IN
         /\ users' = users \ {Row(users, id)}
         /\ favorites' = favorites \ UserFavorites(favorites, id)
         /\ posts' = posts \ gone
         /\ comments' = (comments \ UserComments(comments, id))
                        \ UNION {PostComments(comments, p.id) : p \in gone}
         /\ UNCHANGED <<characters, planets, clock>>
         /\ last' = Outcome("DeleteUser", "ok")

\* UPDATE users SET password = ... WHERE id = ...
UpdateUserPasswordOp(id, password) ==
    IF ~HasId(users, id)
    THEN Rejected("UpdateUserPassword", "NotFound")
    ELSE LET old == Row(users, id) IN
         /\ users' = (users \ {old}) \cup {[old EXCEPT !.password = password]}
         /\ UNCHANGED <<characters, planets, favorites, posts, comments, clock>>
         /\ last' = Outcome("UpdateUserPassword", "ok")

InsertUserFrom(PW, UN) ==
    \E id \in FreeIds(users), email \in Emails, password \in PW,
       username \in UN :
        InsertUserOp(id, email, password, username) /\ UNCHANGED pending

\* A user with any password and an optional username.
InsertUser == InsertUserFrom(Passwords, Usernames)

\* A user with the optional username absent.
InsertUserPlain == InsertUserFrom({"pw1"}, {None})

UpdateUserPassword ==
    \E id \in Ids, password \in Passwords :
        UpdateUserPasswordOp(id, password) /\ UNCHANGED pending

DeleteUser == \E id \in Ids : DeleteUserOp(id) /\ UNCHANGED pending

\* -------------------------------------------------------------- characters
NewCharacter(id, name) ==
    [id |-> id, name |-> name, gender |-> None, birth_year |-> None,
     height_cm |-> None, mass_kg |-> None, homeworld |-> None,
     description |-> None, image_url |-> None]

InsertCharacterOp(id, name) ==
    IF ~UqCharactersName(characters, name)
    THEN Rejected("InsertCharacter", "UniqueViolation")
    ELSE /\ characters' = characters \cup {NewCharacter(id, name)}
         /\ UNCHANGED <<users, planets, favorites, posts, comments, clock>>
         /\ last' = Outcome("InsertCharacter", "ok")

DeleteCharacterOp(id) ==
    IF ~HasId(characters, id)
    THEN Rejected("DeleteCharacter", "NotFound")
    ELSE /\ characters' = characters \ {Row(characters, id)}
         /\ favorites' = favorites \ CharacterFavorites(favorites, id)
         /\ UNCHANGED <<users, planets, posts, comments, clock>>
         /\ last' = Outcome("DeleteCharacter", "ok")

InsertCharacter ==
    \E id \in FreeIds(characters), name \in Names :
        InsertCharacterOp(id, name) /\ UNCHANGED pending

DeleteCharacter == \E id \in Ids : DeleteCharacterOp(id) /\ UNCHANGED pending

\* ----------------------------------------------------------------- planets
NewPlanet(id, name) ==
    [id |-> id, name |-> name, climate |-> None, terrain |-> None,
     population |-> None, diameter_km |-> None,
     orbital_period_days |-> None, description |-> None, image_url |-> None]

InsertPlanetOp(id, name) ==
    IF ~UqPlanetsName(planets, name)
    THEN Rejected("InsertPlanet", "UniqueViolation")
    ELSE /\ planets' = planets \cup {NewPlanet(id, name)}
         /\ UNCHANGED <<users, characters, favorites, posts, comments, clock>>
         /\ last' = Outcome("InsertPlanet", "ok")

DeletePlanetOp(id) ==
    IF ~HasId(planets, id)
    THEN Rejected("DeletePlanet", "NotFound")
    ELSE /\ planets' = planets \ {Row(planets, id)}
         /\ favorites' = favorites \ PlanetFavorites(favorites, id)
         /\ UNCHANGED <<users, characters, posts, comments, clock>>
         /\ last' = Outcome("DeletePlanet", "ok")

InsertPlanet ==
    \E id \in FreeIds(planets), name \in PlanetNames :
        InsertPlanetOp(id, name) /\ UNCHANGED pending

DeletePlanet == \E id \in Ids : DeletePlanetOp(id) /\ UNCHANGED pending

\* --------------------------------------------------------------- favorites
NewFavorite(id, user_id, character_id, planet_id) ==
    [id |-> id, user_id |-> user_id, character_id |-> character_id,
     planet_id |-> planet_id, created_at |-> UtcNow]

\* What the engine reports for a favorites row (user_id, character_id,
\* planet_id) written beside the rows F: the check constraint is evaluated on
\* the row itself, then the unique indexes, then the foreign keys.
FavoriteVerdict(F, user_id, character_id, planet_id) ==
    IF ~CkExactlyOneRef(character_id, planet_id) THEN "CheckViolation"
    ELSE IF ~(UqUserCharacterFav(F, user_id, character_id)
              /\ UqUserPlanetFav(F, user_id, planet_id))
         THEN "UniqueViolation"
    ELSE IF ~(FkUser(users, user_id) /\ FkCharacter(characters, character_id)
              /\ FkPlanet(planets, planet_id))
         THEN "ForeignKeyViolation"
    ELSE "ok"

InsertFavoriteOp(id, user_id, character_id, planet_id) ==
    LET verdict == FavoriteVerdict(favorites, user_id, character_id, planet_id)
    IN  IF verdict # "ok"
        THEN Rejected("InsertFavorite", verdict)
        ELSE /\ favorites' = favorites
                    \cup {NewFavorite(id, user_id, character_id, planet_id)}
             /\ UNCHANGED <<users, characters, planets, posts, comments, clock>>
             /\ last' = Outcome("InsertFavorite", "ok")

UpdateFavoriteOp(id, user_id, character_id, planet_id) ==
    IF ~HasId(favorites, id)
    THEN Rejected("UpdateFavorite", "NotFound")
    ELSE LET old == Row(favorites, id)
             verdict == FavoriteVerdict(favorites \ {old}, user_id,
                                        character_id, planet_id)
         IN  IF verdict # "ok"
             THEN Rejected("UpdateFavorite", verdict)
             ELSE /\ favorites' = (favorites \ {old}) \cup
                        {[old EXCEPT !.user_id = user_id,
                                     !.character_id = character_id,
                                     !.planet_id = planet_id]}
                  /\ UNCHANGED <<users, characters, planets, posts, comments,
                                 clock>>
                  /\ last' = Outcome("UpdateFavorite", "ok")

DeleteFavoriteOp(id) ==
    IF ~HasId(favorites, id)
    THEN Rejected("DeleteFavorite", "NotFound")
    ELSE /\ favorites' = favorites \ {Row(favorites, id)}
         /\ UNCHANGED <<users, characters, planets, posts, comments, clock>>
         /\ last' = Outcome("DeleteFavorite", "ok")

InsertFavorite ==
    \E id \in FreeIds(favorites), user_id \in Ids,
       character_id \in OptIds, planet_id \in OptIds :
        InsertFavoriteOp(id, user_id, character_id, planet_id)
        /\ UNCHANGED pending

UpdateFavorite ==
    \E id \in Ids, user_id \in Ids, character_id \in OptIds,
       planet_id \in OptIds :
        UpdateFavoriteOp(id, user_id, character_id, planet_id)
        /\ UNCHANGED pending

DeleteFavorite == \E id \in Ids : DeleteFavoriteOp(id) /\ UNCHANGED pending

\* ------------------------------------------------------------------- posts
\* created_at and updated_at default to two successive calls of
\* datetime.utcnow, in column order; the clock may advance by `later`
\* between them.
NewPost(id, author_id, title, body, later) ==
    [id |-> id, author_id |-> author_id, title |-> title, body |-> body,
     created_at |-> UtcNow, updated_at |-> UtcNow + later]

\* An updated_at column without onupdate: an UPDATE keeps the old value.
OnUpdateAbsent(post) == post.updated_at

\* onupdate=datetime.utcnow: the value an UPDATE statement gives updated_at
OnUpdate(post) == UtcNow

InsertPostOp(id, author_id, title, body, later) ==
    IF ~FkUser(users, author_id)
    THEN Rejected("InsertPost", "ForeignKeyViolation")
    ELSE /\ posts' = posts \cup {NewPost(id, author_id, title, body, later)}
         /\ clock' = clock + later
         /\ UNCHANGED <<users, characters, planets, favorites, comments>>
         /\ last' = Outcome("InsertPost", "ok")

UpdatePostOp(id, body) ==
    IF ~HasId(posts, id)
    THEN Rejected("UpdatePost", "NotFound")
    ELSE LET old == Row(posts, id) IN
         /\ posts' = (posts \ {old}) \cup
                {[old EXCEPT !.body = body, !.updated_at = OnUpdate(old)]}
         /\ UNCHANGED <<users, characters, planets, favorites, comments, clock>>
         /\ last' = Outcome("UpdatePost", "ok")

DeletePostOp(id) ==
    IF ~HasId(posts, id)
    THEN Rejected("DeletePost", "NotFound")
    ELSE /\ posts' = posts \ {Row(posts, id)}
         /\ comments' = comments \ PostComments(comments, id)
         /\ UNCHANGED <<users, characters, planets, favorites, clock>>
         /\ last' = Outcome("DeletePost", "ok")

InsertPost ==
    \E id \in FreeIds(posts), author_id \in Ids, title \in Titles,
       body \in Bodies, later \in 0..1 :
        /\ clock + later <= MaxClock
        /\ InsertPostOp(id, author_id, title, body, later)
        /\ UNCHANGED pending

\* A post written within one clock reading.
InsertPostNow ==
    \E id \in FreeIds(posts), author_id \in Ids, title \in Titles :
        InsertPostOp(id, author_id, title, "b1", 0) /\ UNCHANGED pending

UpdatePost ==
    \E id \in Ids, body \in Bodies : UpdatePostOp(id, body) /\ UNCHANGED pending

DeletePost == \E id \in Ids : DeletePostOp(id) /\ UNCHANGED pending

\* ---------------------------------------------------------------- comments
NewComment(id, body, author_id, post_id) ==
    [id |-> id, body |-> body, author_id |-> author_id, post_id |-> post_id,
     created_at |-> UtcNow]

InsertCommentOp(id, body, author_id, post_id) ==
    IF ~(FkUser(users, author_id) /\ FkPost(posts, post_id))
    THEN Rejected("InsertComment", "ForeignKeyViolation")
    ELSE /\ comments' = comments \cup {NewComment(id, body, author_id, post_id)}
         /\ UNCHANGED <<users, characters, planets, favorites, posts, clock>>
         /\ last' = Outcome("InsertComment", "ok")

DeleteCommentOp(id) ==
    IF ~HasId(comments, id)
    THEN Rejected("DeleteComment", "NotFound")
    ELSE /\ comments' = comments \ {Row(comments, id)}
         /\ UNCHANGED <<users, characters, planets, favorites, posts, clock>>
         /\ last' = Outcome("DeleteComment", "ok")

InsertComment ==
    \E id \in FreeIds(comments), body \in CommentBodies, author_id \in Ids,
       post_id \in Ids :
        InsertCommentOp(id, body, author_id, post_id) /\ UNCHANGED pending

DeleteComment == \E id \in Ids : DeleteCommentOp(id) /\ UNCHANGED pending

\* ------------------------------------------------------------------- clock
\* The wall clock advances on its own between writes.
Tick ==
    /\ clock < MaxClock
    /\ clock' = clock + 1
    /\ last' = Outcome("Tick", "ok")
    /\ UNCHANGED <<tables, pending>>

\* ----------------------------------------------------------- serialization
\* datetime.isoformat
IsoFormat(t) == ToString(t)

\* The truth value Python gives an Optional[int]: None and 0 are false.
Truthy(opt) == opt # None /\ opt[1] # 0

\* A serializer that also emits the password column.
UserSerializeWithPassword(u) ==
    [id |-> u.id, email |-> u.email, username |-> u.username,
     password |-> u.password, is_active |-> u.is_active,
     created_at |-> IsoFormat(u.created_at)]

\* User.serialize
UserSerialize(u) ==
    [id |-> u.id, email |-> u.email, username |-> u.username,
     is_active |-> u.is_active, created_at |-> IsoFormat(u.created_at)]

\* Character.serialize
CharacterSerialize(c) ==
    [id |-> c.id, name |-> c.name, gender |-> c.gender,
     birth_year |-> c.birth_year, height_cm |-> c.height_cm,
     mass_kg |-> c.mass_kg, homeworld |-> c.homeworld,
     description |-> c.description, image_url |-> c.image_url]

\* Planet.serialize
PlanetSerialize(p) ==
    [id |-> p.id, name |-> p.name, climate |-> p.climate,
     terrain |-> p.terrain, population |-> p.population,
     diameter_km |-> p.diameter_km,
     orbital_period_days |-> p.orbital_period_days,
     description |-> p.description, image_url |-> p.image_url]

\* Favorite.serialize, with the characters C and planets P stored
FavoriteSerialize(f, C, P) ==
    LET result == [id |-> f.id, user_id |-> f.user_id,
                   created_at |-> IsoFormat(f.created_at)]
        character ==
            IF Truthy(f.character_id)
            THEN "character" :>
                    (IF HasId(C, f.character_id[1])
                     THEN CharacterSerialize(Row(C, f.character_id[1]))
                     ELSE None)
            ELSE <<>>
        planet ==
            IF Truthy(f.planet_id)
            THEN "planet" :>
                    (IF HasId(P, f.planet_id[1])
                     THEN PlanetSerialize(Row(P, f.planet_id[1]))
                     ELSE None)
            ELSE <<>>
    IN  result @@ character @@ planet

\* Post.serialize, with the users U and comments C stored
PostSerialize(p, U, C) ==
    [id |-> p.id, title |-> p.title, body |-> p.body,
     author_id |-> p.author_id,
     author |-> IF HasId(U, p.author_id)
                THEN UserSerialize(Row(U, p.author_id)) ELSE None,
     created_at |-> IsoFormat(p.created_at),
     updated_at |-> IsoFormat(p.updated_at),
     comments_count |-> Cardinality(PostComments(C, p.id))]

\* Comment.serialize, with the users U stored
CommentSerialize(c, U) ==
    [id |-> c.id, body |-> c.body, author_id |-> c.author_id,
     author |-> IF HasId(U, c.author_id)
                THEN UserSerialize(Row(U, c.author_id)) ELSE None,
     post_id |-> c.post_id, created_at |-> IsoFormat(c.created_at)]

\* ---------------------------------------------------------------- sessions
\* db.session: objects added to a session are written when it commits; the
\* engine evaluates every constraint against the committed rows at that
\* moment, and a rejected commit is rolled back.
AddUser(s) ==
    /\ pending[s] = NoPending
    /\ \E email \in Emails :
        pending' = [pending EXCEPT ![s].users =
            {[email |-> email, password |-> "pw1", username |-> None]}]
    /\ UNCHANGED <<tables, clock, last>>

AddFavorite(s) ==
    /\ pending[s] = NoPending
    /\ \E user_id \in Ids, character \in Ids :
        pending' = [pending EXCEPT ![s].favorites =
            {[user_id |-> user_id, character_id |-> Some(character),
              planet_id |-> None]}]
    /\ UNCHANGED <<tables, clock, last>>

CommitOp(s) ==
    \/ \E r \in pending[s].users, id \in FreeIds(users) :
            InsertUserOp(id, r.email, r.password, r.username)
    \/ \E r \in pending[s].favorites, id \in FreeIds(favorites) :
            InsertFavoriteOp(id, r.user_id, r.character_id, r.planet_id)

Commit(s) ==
    /\ pending[s] # NoPending
    /\ CommitOp(s)
    /\ pending' = [pending EXCEPT ![s] = NoPending]

\* ---------------------------------------------------------- specifications
\* The total number of stored rows.
Size ==
    Cardinality(users) + Cardinality(characters) + Cardinality(planets)
    + Cardinality(favorites) + Cardinality(posts) + Cardinality(comments)

MaxRows == 6
Room == Size < MaxRows

\* All six tables: every insert and delete, with at most MaxRows rows stored.
Next ==
    \/ Room /\ InsertUserPlain
    \/ DeleteUser
    \/ Room /\ InsertCharacter
    \/ DeleteCharacter
    \/ Room /\ InsertPlanet
    \/ DeletePlanet
    \/ Room /\ InsertFavorite
    \/ DeleteFavorite
    \/ Room /\ InsertPostNow
    \/ DeletePost
    \/ Room /\ InsertComment
    \/ DeleteComment

Spec == Init /\ [][Next]_vars

\* Favorites over the catalog: inserts, updates and deletes.
NextFav ==
    \/ InsertUserPlain
    \/ DeleteUser
    \/ InsertCharacter
    \/ DeleteCharacter
    \/ InsertPlanet
    \/ DeletePlanet
    \/ InsertFavorite
    \/ UpdateFavorite
    \/ DeleteFavorite

SpecFav == Init /\ [][NextFav]_vars

\* Posts and their timestamps under an advancing clock.
NextPost ==
    \/ InsertUserPlain
    \/ DeleteUser
    \/ InsertPost
    \/ UpdatePost
    \/ DeletePost
    \/ Tick

SpecPost == Init /\ [][NextPost]_vars

\* Users with passwords, and the posts and comments that embed them.
NextSer ==
    \/ InsertUser
    \/ UpdateUserPassword
    \/ DeleteUser
    \/ InsertPostNow
    \/ DeletePost
    \/ InsertComment
    \/ DeleteComment

SpecSer == Init /\ [][NextSer]_vars

\* Two sessions inserting users and favorites concurrently.
NextConc ==
    \/ \E s \in Sessions : AddUser(s)
    \/ \E s \in Sessions : AddFavorite(s)
    \/ \E s \in Sessions : Commit(s)
    \/ InsertCharacter
    \/ DeleteUser

SpecConc == Init /\ [][NextConc]_vars

\* ------------------------------------------------------------------ claims
\* C6: serializing a stored Favorite yields a "character" key holding the
\* serialized Character and no "planet" key when it references a Character,
\* and the converse when it references a Planet, whatever the referenced id.
C6_SerializeExactlyOneKey ==
    \A f \in favorites :
        LET r == FavoriteSerialize(f, characters, planets) IN
        /\ f.character_id # None =>
            /\ "character" \in DOMAIN r
            /\ "planet" \notin DOMAIN r
            /\ r.character =
                 CharacterSerialize(Row(characters, f.character_id[1]))
        /\ f.planet_id # None =>
            /\ "planet" \in DOMAIN r
            /\ "character" \notin DOMAIN r
            /\ r.planet = PlanetSerialize(Row(planets, f.planet_id[1]))

\* The (user_id, character_id, planet_id) triples a Favorite write may carry.
FavoriteInputs == Ids \X OptIds \X OptIds

\* A write is rejected: no table changes and the caller gets `result`.
RejectedWith(result) == UNCHANGED tables /\ last'.result = result

\* C1: every stored Favorite has exactly one of character_id and planet_id
\* non-null, and an insert or update that would leave both null or both set
\* is rejected with the favorites table unchanged.
C1_StoredExactlyOne ==
    \A f \in favorites : (f.character_id = None) # (f.planet_id = None)

C1_BadWriteRejected ==
    \/ RejectedWith("CheckViolation")
    \/ /\ last'.op = "InsertFavorite" =>
            \A id \in FreeIds(favorites), w \in FavoriteInputs :
                (w[2] = None) = (w[3] = None) =>
                    ~InsertFavoriteOp(id, w[1], w[2], w[3])
       /\ last'.op = "UpdateFavorite" =>
            \A f \in favorites, w \in FavoriteInputs :
                (w[2] = None) = (w[3] = None) =>
                    ~UpdateFavoriteOp(f.id, w[1], w[2], w[3])

C1_ExactlyOneRef == []C1_StoredExactlyOne /\ [][C1_BadWriteRejected]_vars

C1_Witness ==
    /\ last = Outcome("UpdateFavorite", "CheckViolation")
    /\ Cardinality(favorites) = 2

\* C2: no two Favorites share (user_id, character_id) or (user_id,
\* planet_id); inserting a pair that is already stored is rejected as a
\* uniqueness violation, and inserting a pair that is not stored succeeds
\* whatever other Favorites the user has (NULL columns never collide).
SamePair(f, user_id, character_id, planet_id) ==
    /\ f.user_id = user_id
    /\ \/ (character_id # None /\ f.character_id = character_id)
       \/ (planet_id # None /\ f.planet_id = planet_id)

C2_PairsUnique ==
    \A f, g \in favorites :
        SamePair(f, g.user_id, g.character_id, g.planet_id) => f = g

C2_InsertDecided ==
    last'.op = "InsertFavorite" =>
    \A id \in FreeIds(favorites), w \in FavoriteInputs :
        ( /\ (w[2] = None) # (w[3] = None)
          /\ InsertFavoriteOp(id, w[1], w[2], w[3]) ) =>
            IF \E f \in favorites : SamePair(f, w[1], w[2], w[3])
            THEN RejectedWith("UniqueViolation")
            ELSE ( /\ HasId(users, w[1])
                   /\ w[2] # None => HasId(characters, w[2][1])
                   /\ w[3] # None => HasId(planets, w[3][1]) ) =>
                    /\ favorites' = favorites
                            \cup {NewFavorite(id, w[1], w[2], w[3])}
                    /\ last'.result = "ok"

C2_UniquePerUser == []C2_PairsUnique /\ [][C2_InsertDecided]_vars

C2_Witness ==
    /\ last = Outcome("InsertFavorite", "UniqueViolation")
    /\ \E f \in favorites : f.character_id # None

\* C3: deleting a User removes, in the same write, every Favorite, Post and
\* Comment of that user and every Comment (by any author) on those Posts.
C3_NothingOfUserLeft(id) ==
    /\ ~HasId(users', id)
    /\ \A f \in favorites' : f.user_id # id
    /\ \A p \in posts' : p.author_id # id
    /\ \A c \in comments' :
        /\ c.author_id # id
        /\ \A p \in posts : p.author_id = id => c.post_id # p.id

C3_DeleteUserStep ==
    last'.op = "DeleteUser" =>
        \A u \in users : DeleteUserOp(u.id) => C3_NothingOfUserLeft(u.id)

C3_UserDeleteCascades == [][C3_DeleteUserStep]_vars

\* A user with a favorite and a post that another user commented on.
C3_Witness ==
    \E u \in users, f \in favorites, p \in posts, c \in comments :
        /\ f.user_id = u.id
        /\ p.author_id = u.id
        /\ c.post_id = p.id
        /\ c.author_id # u.id

\* C4: inserting a User whose email is already stored is rejected as a
\* uniqueness violation and leaves the users table as it was.
C4_DuplicateEmailStep ==
    last'.op = "InsertUser" =>
        \/ (users' = users /\ last'.result = "UniqueViolation")
        \/ \A id \in FreeIds(users), u \in users, password \in Passwords,
              username \in Usernames :
                ~InsertUserOp(id, u.email, password, username)

C4_DuplicateEmailRejected == [][C4_DuplicateEmailStep]_vars

C4_Witness ==
    /\ last = Outcome("InsertUser", "UniqueViolation")
    /\ Cardinality(users) = 1

\* C8: no foreign key dangles; an insert naming a missing parent is
\* rejected, and deleting a parent deletes it together with its dependents.
C8_NoDangling ==
    /\ \A f \in favorites :
        /\ HasId(users, f.user_id)
        /\ f.character_id # None => HasId(characters, f.character_id[1])
        /\ f.planet_id # None => HasId(planets, f.planet_id[1])
    /\ \A p \in posts : HasId(users, p.author_id)
    /\ \A c \in comments :
        HasId(users, c.author_id) /\ HasId(posts, c.post_id)

C8_OrphanInsertRejected ==
    \/ (UNCHANGED tables /\ last'.result # "ok")
    \/ /\ last'.op = "InsertFavorite" =>
            \A id \in FreeIds(favorites), w \in FavoriteInputs :
                ( \/ ~HasId(users, w[1])
                  \/ (w[2] # None /\ ~HasId(characters, w[2][1]))
                  \/ (w[3] # None /\ ~HasId(planets, w[3][1])) ) =>
                    ~InsertFavoriteOp(id, w[1], w[2], w[3])
       /\ last'.op = "InsertPost" =>
            \A id \in FreeIds(posts), a \in Ids, t \in Titles, b \in Bodies :
                ~HasId(users, a) => ~InsertPostOp(id, a, t, b, 0)
       /\ last'.op = "InsertComment" =>
            \A id \in FreeIds(comments), a \in Ids, q \in Ids,
               b \in CommentBodies :
                (~HasId(users, a) \/ ~HasId(posts, q)) =>
                    ~InsertCommentOp(id, b, a, q)

C8_ParentDeleteStep ==
    /\ last'.op = "DeleteUser" =>
        \A u \in users : DeleteUserOp(u.id) =>
            last'.result = "ok" /\ ~HasId(users', u.id)
    /\ last'.op = "DeleteCharacter" =>
        \A c \in characters : DeleteCharacterOp(c.id) =>
            /\ last'.result = "ok" /\ ~HasId(characters', c.id)
            /\ \A f \in favorites :
                f.character_id = Some(c.id) => ~HasId(favorites', f.id)
    /\ last'.op = "DeletePlanet" =>
        \A p \in planets : DeletePlanetOp(p.id) =>
            /\ last'.result = "ok" /\ ~HasId(planets', p.id)
            /\ \A f \in favorites :
                f.planet_id = Some(p.id) => ~HasId(favorites', f.id)
    /\ last'.op = "DeletePost" =>
        \A p \in posts : DeletePostOp(p.id) =>
            /\ last'.result = "ok" /\ ~HasId(posts', p.id)
            /\ \A c \in comments :
                c.post_id = p.id => ~HasId(comments', c.id)

C8_ReferentialIntegrity ==
    /\ []C8_NoDangling
    /\ [][C8_OrphanInsertRejected /\ C8_ParentDeleteStep]_vars

C8_Witness ==
    /\ last = Outcome("InsertComment", "ForeignKeyViolation")
    /\ users # {}
    /\ favorites # {}

\* C10: deleting a Character (a Planet) deletes exactly the Favorites that
\* reference it and leaves every other row of every table as it was;
\* deleting a Favorite or a User deletes no Character and no Planet.
C10_CatalogDeleteStep ==
    /\ last'.op = "DeleteCharacter" =>
        \A c \in characters : DeleteCharacterOp(c.id) =>
            /\ characters' = characters \ {c}
            /\ favorites' =
                 {f \in favorites : f.character_id # Some(c.id)}
            /\ UNCHANGED <<users, planets, posts, comments>>
    /\ last'.op = "DeletePlanet" =>
        \A p \in planets : DeletePlanetOp(p.id) =>
            /\ planets' = planets \ {p}
            /\ favorites' = {f \in favorites : f.planet_id # Some(p.id)}
            /\ UNCHANGED <<users, characters, posts, comments>>
    /\ last'.op \in {"DeleteFavorite", "DeleteUser"} =>
        UNCHANGED <<characters, planets>>

C10_CatalogDeleteFrame == [][C10_CatalogDeleteStep]_vars

\* A character was just deleted while another character's favorite, a
\* post and a user are stored.
C10_Witness ==
    /\ last = Outcome("DeleteCharacter", "ok")
    /\ \E f \in favorites : f.character_id # None
    /\ posts # {}

\* C5 as stated: every update of a stored Post's body sets updated_at to a
\* value strictly greater than the one before, and updated_at is never less
\* than created_at.
C5_UpdateStrictStep ==
    last'.op = "UpdatePost" =>
        \A p \in posts, body \in Bodies : UpdatePostOp(p.id, body) =>
            Row(posts', p.id).updated_at > p.updated_at

C5_NeverBeforeCreated ==
    \A p \in posts : p.created_at <= p.updated_at /\ p.updated_at <= clock

C5_StrictlyIncreasing ==
    []C5_NeverBeforeCreated /\ [][C5_UpdateStrictStep]_vars

\* C5 as amended: every UPDATE of a stored Post's body sets updated_at, in
\* the same write, to the clock reading taken at that write, which is greater
\* than or equal to the value before (equal when both writes fall on one
\* clock reading); updated_at is never less than created_at.
C5_UpdateRefreshStep ==
    last'.op = "UpdatePost" =>
        \A p \in posts, body \in Bodies : UpdatePostOp(p.id, body) =>
            /\ Row(posts', p.id).updated_at = clock'
            /\ Row(posts', p.id).updated_at >= p.updated_at
            /\ Row(posts', p.id).body = body

C5_NonDecreasing ==
    []C5_NeverBeforeCreated /\ [][C5_UpdateRefreshStep]_vars

\* An update that moved updated_at past created_at.
C5_Witness ==
    /\ last = Outcome("UpdatePost", "ok")
    /\ \E p \in posts : p.updated_at = clock /\ p.created_at < p.updated_at

\* C7: whatever the interleaving of two sessions inserting colliding rows,
\* no state holds two users with one email or two favorites with one
\* (user_id, character_id) pair: the commit that comes second is rejected.
C7_NoDuplicates ==
    /\ \A u, v \in users : u.email = v.email => u = v
    /\ \A f, g \in favorites :
        ( /\ f.user_id = g.user_id
          /\ f.character_id # None
          /\ f.character_id = g.character_id ) => f = g

C7_Collides(s) ==
    \/ \E r \in pending[s].users, u \in users : u.email = r.email
    \/ \E r \in pending[s].favorites, f \in favorites :
        f.user_id = r.user_id /\ f.character_id = r.character_id

C7_SecondCommitStep ==
    last'.op \in {"InsertUser", "InsertFavorite"} =>
        \A s \in Sessions : (C7_Collides(s) /\ Commit(s)) =>
            RejectedWith("UniqueViolation")

C7_AtMostOneCommits == []C7_NoDuplicates /\ [][C7_SecondCommitStep]_vars

\* One session has committed a favorite while the other still holds the
\* same (user_id, character_id) pair.
C7_Witness ==
    /\ last = Outcome("InsertFavorite", "ok")
    /\ \E s \in Sessions : \E r \in pending[s].favorites, f \in favorites :
        f.user_id = r.user_id /\ f.character_id = r.character_id

\* C9: serialized output does not depend on stored passwords: replacing
\* every user's password by any other leaves User.serialize, Post.serialize
\* and Comment.serialize unchanged.
C9_PasswordNeverSerialized ==
    \A pw \in [{u.id : u \in users} -> Passwords] :
        LET others == {[u EXCEPT !.password = pw[u.id]] : u \in users} IN
        /\ \A u \in users :
            UserSerialize([u EXCEPT !.password = pw[u.id]]) = UserSerialize(u)
        /\ \A p \in posts :
            PostSerialize(p, others, comments)
                = PostSerialize(p, users, comments)
        /\ \A c \in comments :
            CommentSerialize(c, others) = CommentSerialize(c, users)

\* Two users with different passwords, one just changed, with a post and a
\* comment that embed them.
C9_Witness ==
    /\ last = Outcome("UpdateUserPassword", "ok")
    /\ \E u, v \in users : u.password # v.password
    /\ \E p \in posts, c \in comments : c.author_id # p.author_id
====
